---------------------------- MODULE Spec2Model ----------------------------
(***************************************************************************)
(* Agent Builder backend: the multi-provider AI service gateway            *)
(* (ai_service.py) and the conversation orchestrator that drives text and  *)
(* voice turns over the message store (routers/chat.py, routers/agents.py, *)
(* routers/sessions.py, models.py).                                        *)
(*                                                                         *)
(* Three specifications are given.  GatewaySpec applies the four gateway   *)
(* capabilities directly to inputs drawn from bounded sets.  Spec runs     *)
(* concurrent request handlers on the cooperative scheduler, one action    *)
(* per stretch of handler code between two suspension points.  AdminSpec   *)
(* runs a turn together with create_session, update_agent and delete_agent *)
(* requests.                                                               *)
(***************************************************************************)
EXTENDS Integers, Sequences, FiniteSets, TLC

VARIABLES
    env,        \* ACTIVE_AI_PROVIDER in the environment: << >> unset, <<value>> set
    provider,   \* AIServiceFactory.provider, a string as a sequence of characters
    agents,     \* table agent:   id -> [name, prompt]
    sessions,   \* table session: id -> [agent_id, name]
    messages,   \* table message: set of committed rows
    clock,      \* datetime.now(): the next created_at stamp
    turn,       \* the request handlers of send_text_message / send_voice_message
    trace,      \* per handler: the commits and gateway calls it made, in order
    files,      \* the uploads directory: set of [path, writer, client, text]
    gw,         \* the last direct call of a gateway capability and its outcome
    ops,        \* the request handlers of create_session / update_agent / delete_agent
    uuids       \* uuid.uuid4(): the agent and session ids already handed out

vars == <<env, provider, agents, sessions, messages, clock, turn, trace, files, gw,
          ops, uuids>>

---------------------------------------------------------------------------
(* Bounds of the model. *)

\* requests handled in one run, and entries of a history handed to the
\* gateway directly
MaxTurns == 2
MaxHistory == 2

---------------------------------------------------------------------------
(* Strings that the code transforms are sequences of characters. *)

OPENAI == <<"o", "p", "e", "n", "a", "i">>
GROQ == <<"g", "r", "o", "q">>
GEMINI == <<"g", "e", "m", "i", "n", "i">>

UpperCase == <<"A", "B", "C", "D", "E", "F", "G", "H", "I", "J", "K", "L", "M",
               "N", "O", "P", "Q", "R", "S", "T", "U", "V", "W", "X", "Y", "Z">>
LowerCase == <<"a", "b", "c", "d", "e", "f", "g", "h", "i", "j", "k", "l", "m",
               "n", "o", "p", "q", "r", "s", "t", "u", "v", "w", "x", "y", "z">>

\* str.lower() on one character
LowerChar(c) ==
    IF \E i \in 1..Len(UpperCase) : UpperCase[i] = c
    THEN LowerCase[CHOOSE i \in 1..Len(UpperCase) : UpperCase[i] = c]
    ELSE c

\* str.lower()
Lower(s) == [i \in 1..Len(s) |-> LowerChar(s[i])]

\* os.getenv(key, default) on the one key the gateway selects by
Getenv(e, default) == IF e = << >> THEN default ELSE e[1]

\* Values ACTIVE_AI_PROVIDER takes in the model: unset, the three providers in
\* several spellings, the empty string and an unsupported provider.
EnvValues ==
    { << >>,
      <<OPENAI>>, <<GROQ>>, <<GEMINI>>,
      <<<<"O", "p", "e", "n", "A", "I">>>>,
      <<<<"G", "R", "O", "Q">>>>,
      <<<<"G", "e", "m", "i", "n", "i">>>>,
      <<<<"a", "z", "u", "r", "e">>>>,
      <<<< >>>> }

\* AIServiceFactory.__init__: the provider selection
InitProvider(e) == Lower(Getenv(e, OPENAI))

---------------------------------------------------------------------------
(* The gateway, ai_service.py.  A capability is a pure function of the     *)
(* selected provider and its arguments up to the provider's answer: it     *)
(* yields the client invocation it makes (none, or one), whether it raises *)
(* before invoking anything, and what it writes once the provider answers. *)

NoRequest == << >>

Dict(role, content) == [type |-> "dict", role |-> role, content |-> content]
Content(role, text) == [type |-> "Content", role |-> role, content |-> text]
Str(text) == [type |-> "str", role |-> "", content |-> text]

\* A client invocation.  thread is where the call runs: "worker" for
\* asyncio.to_thread, "loop" for a call made on the event loop; blocking tells
\* whether the client's call blocks its thread until the provider answers
\* (genai.Client) or suspends the coroutine (AsyncOpenAI, AsyncGroq).
Request(client, op, model, thread, blocking, contents, system_instruction, voice) ==
    [client |-> client, op |-> op, model |-> model, thread |-> thread,
     blocking |-> blocking, contents |-> contents,
     system_instruction |-> system_instruction, voice |-> voice]

\* active_model_name with the openai and groq strings swapped
active_model_name_swapped(p) ==
    IF p = GEMINI THEN "gemini-2.5-flash"
    ELSE IF p = GROQ THEN "gpt-4o-mini"
    ELSE IF p = OPENAI THEN "llama-3.3-70b-versatile"
    ELSE "unknown"

\* AIServiceFactory.active_model_name
active_model_name(p) ==
    IF p = GEMINI THEN "gemini-2.5-flash"
    ELSE IF p = GROQ THEN "llama-3.3-70b-versatile"
    ELSE IF p = OPENAI THEN "gpt-4o-mini"
    ELSE "unknown"

\* lines 44-47: the history as gemini Content objects
GeminiHistory(chat_history) ==
    [i \in 1..Len(chat_history) |->
        Content(IF chat_history[i].role = "user" THEN "user" ELSE "model",
                chat_history[i].content)]

\* lines 57-59: the flat message list of openai and groq
FlatMessages(system_prompt, chat_history, new_message) ==
    <<Dict("system", system_prompt)>> \o chat_history \o <<Dict("user", new_message)>>

\* generate_chat_response with the final else falling back to openai
generate_chat_response_fallback(p, system_prompt, chat_history, new_message) ==
    IF p = GEMINI
    THEN [raises |-> "",
          invoke |-> <<Request("gemini_client", "chat", "gemini-2.5-flash", "worker", TRUE,
                               GeminiHistory(chat_history) \o <<Str(new_message)>>,
                               <<system_prompt>>, "")>>]
    ELSE IF p = GROQ
    THEN [raises |-> "",
          invoke |-> <<Request("groq_client", "chat", "llama-3.3-70b-versatile", "loop", FALSE,
                               FlatMessages(system_prompt, chat_history, new_message),
                               << >>, "")>>]
    ELSE [raises |-> "",
          invoke |-> <<Request("openai_client", "chat", "gpt-4o-mini", "loop", FALSE,
                               FlatMessages(system_prompt, chat_history, new_message),
                               << >>, "")>>]

\* generate_chat_response with the new message put before the history
generate_chat_response_newfirst(p, system_prompt, chat_history, new_message) ==
    IF p = GEMINI
    THEN [raises |-> "",
          invoke |-> <<Request("gemini_client", "chat", "gemini-2.5-flash", "worker", TRUE,
                               <<Str(new_message)>> \o GeminiHistory(chat_history),
                               <<system_prompt>>, "")>>]
    ELSE IF p = OPENAI
    THEN [raises |-> "",
          invoke |-> <<Request("openai_client", "chat", "gpt-4o-mini", "loop", FALSE,
                               <<Dict("system", system_prompt), Dict("user", new_message)>>
                                   \o chat_history,
                               << >>, "")>>]
    ELSE IF p = GROQ
    THEN [raises |-> "",
          invoke |-> <<Request("groq_client", "chat", "llama-3.3-70b-versatile", "loop", FALSE,
                               <<Dict("system", system_prompt), Dict("user", new_message)>>
                                   \o chat_history,
                               << >>, "")>>]
    ELSE [raises |-> "ValueError", invoke |-> NoRequest]

\* AIServiceFactory.generate_chat_response up to the provider's answer
generate_chat_response(p, system_prompt, chat_history, new_message) ==
    IF p = GEMINI
    THEN [raises |-> "",
          invoke |-> <<Request("gemini_client", "chat", "gemini-2.5-flash", "worker", TRUE,
                               GeminiHistory(chat_history) \o <<Str(new_message)>>,
                               <<system_prompt>>, "")>>]
    ELSE IF p = OPENAI
    THEN [raises |-> "",
          invoke |-> <<Request("openai_client", "chat", "gpt-4o-mini", "loop", FALSE,
                               FlatMessages(system_prompt, chat_history, new_message),
                               << >>, "")>>]
    ELSE IF p = GROQ
    THEN [raises |-> "",
          invoke |-> <<Request("groq_client", "chat", "llama-3.3-70b-versatile", "loop", FALSE,
                               FlatMessages(system_prompt, chat_history, new_message),
                               << >>, "")>>]
    ELSE [raises |-> "ValueError", invoke |-> NoRequest]

\* transcribe_audio with the gemini call made directly on the event loop
transcribe_audio_onloop(p, file_path) ==
    IF p = GEMINI
    THEN <<Request("gemini_client", "stt", "gemini-2.5-flash", "loop", TRUE,
                   <<Str("Generate an exact transcript of this audio."),
                     [type |-> "audio/webm", role |-> "", content |-> file_path]>>,
                   << >>, "")>>
    ELSE IF p = GROQ
    THEN <<Request("groq_client", "stt", "whisper-large-v3-turbo", "loop", FALSE,
                   <<[type |-> "audio.webm", role |-> "", content |-> file_path]>>,
                   << >>, "")>>
    ELSE IF p = OPENAI
    THEN <<Request("openai_client", "stt", "gpt-4o-transcribe", "loop", FALSE,
                   <<[type |-> "file", role |-> "", content |-> file_path]>>,
                   << >>, "")>>
    ELSE NoRequest

\* AIServiceFactory.transcribe_audio up to the provider's answer: the client
\* invocation, or none when no branch matches (the coroutine then returns None)
transcribe_audio(p, file_path) ==
    IF p = GEMINI
    THEN <<Request("gemini_client", "stt", "gemini-2.5-flash", "worker", TRUE,
                   <<Str("Generate an exact transcript of this audio."),
                     [type |-> "audio/webm", role |-> "", content |-> file_path]>>,
                   << >>, "")>>
    ELSE IF p = GROQ
    THEN <<Request("groq_client", "stt", "whisper-large-v3-turbo", "loop", FALSE,
                   <<[type |-> "audio.webm", role |-> "", content |-> file_path]>>,
                   << >>, "")>>
    ELSE IF p = OPENAI
    THEN <<Request("openai_client", "stt", "gpt-4o-transcribe", "loop", FALSE,
                   <<[type |-> "file", role |-> "", content |-> file_path]>>,
                   << >>, "")>>
    ELSE NoRequest

\* text_to_speech with the groq branch calling the openai client
text_to_speech_wrongclient(p, text, output_path) ==
    IF p = GEMINI
    THEN <<Request("gemini_client", "tts", "gemini-2.5-flash-preview-tts", "worker", TRUE,
                   <<Str(text)>>, << >>, "Kore")>>
    ELSE IF p = GROQ
    THEN <<Request("openai_client", "tts", "playai-tts", "loop", FALSE,
                   <<Str(text)>>, << >>, "Fritz-PlayAI")>>
    ELSE IF p = OPENAI
    THEN <<Request("openai_client", "tts", "gpt-4o-mini-tts", "loop", FALSE,
                   <<Str(text)>>, << >>, "coral")>>
    ELSE NoRequest

\* AIServiceFactory.text_to_speech up to the provider's answer: the client
\* invocation, or none when no branch matches (output_path is then returned
\* with nothing written)
text_to_speech(p, text, output_path) ==
    IF p = GEMINI
    THEN <<Request("gemini_client", "tts", "gemini-2.5-flash-preview-tts", "worker", TRUE,
                   <<Str(text)>>, << >>, "Kore")>>
    ELSE IF p = GROQ
    THEN <<Request("groq_client", "tts", "playai-tts", "loop", FALSE,
                   <<Str(text)>>, << >>, "Fritz-PlayAI")>>
    ELSE IF p = OPENAI
    THEN <<Request("openai_client", "tts", "gpt-4o-mini-tts", "loop", FALSE,
                   <<Str(text)>>, << >>, "coral")>>
    ELSE NoRequest

\* What a file of the uploads directory holds: who wrote it, for which client's
\* answer, and the text it speaks ("" for an uploaded recording).
File(path, writer, client, text) ==
    [path |-> path, writer |-> writer, client |-> client, text |-> text]

\* Writing a file replaces what the path held.
WriteFile(fs, f) == {x \in fs : x.path # f.path} \cup {f}

\* save_wave_file: the PCM of the gemini answer wrapped into a WAV file
save_wave_file(fs, filename, req) ==
    WriteFile(fs, File(filename, "save_wave_file", req.client, req.contents[1].content))

\* response.stream_to_file of the openai and groq streaming responses
stream_to_file(fs, output_path, req) ==
    WriteFile(fs, File(output_path, "stream_to_file", req.client, req.contents[1].content))

\* text_to_speech once the provider has answered: lines 125-126, 137, 145
TtsWrite(fs, output_path, req) ==
    IF req.client = "gemini_client"
    THEN save_wave_file(fs, output_path, req)
    ELSE stream_to_file(fs, output_path, req)

---------------------------------------------------------------------------
(* Direct calls of the gateway: each action applies one capability to      *)
(* arguments drawn from bounded sets and lets the provider answer or fail. *)

Prompts == {"Be concise", "Be kind"}
Texts == {"a", "b"}
Roles == {"user", "assistant"}
Replies == {"x", "y"}

\* chat histories as fetch_formatted_history hands them over, oldest first
RECURSIVE HistoriesOfLen(_)
HistoriesOfLen(n) ==
    IF n = 0 THEN {<< >>}
    ELSE {Append(h, Dict(r, c)) : h \in HistoriesOfLen(n - 1), r \in Roles, c \in Texts}

Histories == UNION {HistoriesOfLen(n) : n \in 0..MaxHistory}

UploadedPath == "uploads/0_voice.webm"
GwPaths == {UploadedPath, "uploads/0_ai_response.mp3"}

\* how the provider answers a call: it answers, it fails before any byte is
\* written, or it fails after the output file has been opened
Outcomes == {"ok", "error", "error_partial"}

NoGw ==
    [op |-> "", system_prompt |-> "", chat_history |-> << >>, new_message |-> "",
     file_path |-> "", text |-> "", output_path |-> "",
     invoked |-> << >>, raised |-> "", returned |-> << >>]

\* Direct calls are made one after the other: GwDone hands the result to the
\* caller, after which the next capability may be called.
GwActiveModelName ==
    /\ gw.op = ""
    /\ gw' = [NoGw EXCEPT !.op = "active_model_name",
                          !.returned = <<active_model_name(provider)>>]
    /\ UNCHANGED <<env, provider, agents, sessions, messages, clock, turn, trace, files, ops, uuids>>

GwGenerateChatResponse ==
    \E sp \in Prompts, h \in Histories, m \in Texts, o \in {"ok", "error"}, reply \in Replies :
        LET r == generate_chat_response(provider, sp, h, m)
            call == [NoGw EXCEPT !.op = "generate_chat_response", !.system_prompt = sp,
                                 !.chat_history = h, !.new_message = m,
                                 !.invoked = r.invoke]
        IN  /\ gw.op = ""
            /\ gw' = IF r.raises # "" THEN [call EXCEPT !.raised = r.raises]
                     ELSE IF o = "ok" THEN [call EXCEPT !.returned = <<reply>>]
                     ELSE [call EXCEPT !.raised = "ProviderError"]
            /\ UNCHANGED <<env, provider, agents, sessions, messages, clock, turn, trace, files, ops, uuids>>

GwTranscribeAudio ==
    \E path \in GwPaths, o \in {"ok", "error"}, text \in Texts :
        LET req == transcribe_audio(provider, path)
            call == [NoGw EXCEPT !.op = "transcribe_audio", !.file_path = path]
        IN  /\ gw.op = ""
            /\ gw' = IF req = NoRequest THEN call
                     ELSE IF ~\E f \in files : f.path = path
                     THEN [call EXCEPT !.raised = "FileNotFoundError"]
                     ELSE IF o = "ok" THEN [call EXCEPT !.invoked = req, !.returned = <<text>>]
                     ELSE [call EXCEPT !.invoked = req, !.raised = "ProviderError"]
            /\ UNCHANGED <<env, provider, agents, sessions, messages, clock, turn, trace, files, ops, uuids>>

\* a failed synthesis may leave a truncated file behind
PartialFile(fs, output_path, req) ==
    WriteFile(fs, File(output_path, "partial", req.client, req.contents[1].content))

GwTextToSpeech ==
    \E text \in Texts, path \in GwPaths, o \in Outcomes :
        LET req == text_to_speech(provider, text, path)
            call == [NoGw EXCEPT !.op = "text_to_speech", !.text = text,
                                 !.output_path = path, !.invoked = req]
        IN  /\ gw.op = ""
            /\ gw' = IF req = NoRequest \/ o = "ok" THEN [call EXCEPT !.returned = <<path>>]
                     ELSE [call EXCEPT !.raised = "ProviderError"]
            /\ files' = IF req = NoRequest \/ o = "error" THEN files
                        ELSE IF o = "ok" THEN TtsWrite(files, path, req[1])
                        ELSE PartialFile(files, path, req[1])
            /\ UNCHANGED <<env, provider, agents, sessions, messages, clock, turn, trace, ops, uuids>>

GwDone ==
    /\ gw.op # ""
    /\ gw' = NoGw
    /\ UNCHANGED <<env, provider, agents, sessions, messages, clock, turn, trace, files, ops, uuids>>

\* no id handed out yet
NoUuids == [agents |-> {}, sessions |-> {}]

GatewayInit ==
    /\ env \in EnvValues
    /\ provider = InitProvider(env)
    /\ agents = << >>
    /\ sessions = << >>
    /\ messages = {}
    /\ clock = 1
    /\ turn = << >>
    /\ trace = << >>
    /\ files \in {{}, {File(UploadedPath, "upload", "", "")}}
    /\ gw = NoGw
    /\ ops = << >>
    /\ uuids = NoUuids

GatewayNext ==
    \/ GwActiveModelName
    \/ GwGenerateChatResponse
    \/ GwTranscribeAudio
    \/ GwTextToSpeech
    \/ GwDone

GatewaySpec == GatewayInit /\ [][GatewayNext]_vars

---------------------------------------------------------------------------
(* The store (models.py) and the CRUD handlers the turns depend on. *)

TurnIds == 1..MaxTurns

\* the ids a run creates rows under: one agent and one session; a request
\* that names the session before it exists is answered 404
AgentIds == {1}
SessionIds == {1}

\* what users type and say, what agents are told and what the provider
\* answers in the runs with turns
Contents == {"2+2?"}
Transcripts == {"hello"}
AgentPrompts == {"Be concise"}
Answers == {"4"}

\* Python's None, in a column or a variable that otherwise holds a string
NoneValue == "<None>"

\* a row of table message; turn tells which handler built it
Message(id, session_id, role, content, audio_file_path, created_at, t) ==
    [id |-> id, session_id |-> session_id, role |-> role, content |-> content,
     audio_file_path |-> audio_file_path, created_at |-> created_at, turn |-> t]

\* uuid.uuid4(): ids no two rows or files share
UserMsgId(t) == 2 * t - 1
AiMsgId(t) == 2 * t

\* where(Message.session_id == session_id), on the rows of a table state
SessionMessagesIn(rows, session_id) == {m \in rows : m.session_id = session_id}

\* order_by(Message.created_at.desc())
RECURSIVE OrderByCreatedAtDesc(_)
OrderByCreatedAtDesc(rows) ==
    IF rows = {} THEN << >>
    ELSE LET last == CHOOSE m \in rows : \A o \in rows : o.created_at <= m.created_at
         IN  <<last>> \o OrderByCreatedAtDesc(rows \ {last})

\* order_by(Message.created_at.asc())
RECURSIVE OrderByCreatedAt(_)
OrderByCreatedAt(rows) ==
    IF rows = {} THEN << >>
    ELSE LET first == CHOOSE m \in rows : \A o \in rows : m.created_at <= o.created_at
         IN  <<first>> \o OrderByCreatedAt(rows \ {first})

\* select(Message).where(session_id == ...).order_by(created_at.asc()), the
\* query of get_session_history and of fetch_formatted_history
SelectMessagesIn(rows, session_id) == OrderByCreatedAt(SessionMessagesIn(rows, session_id))

SelectMessages(session_id) == SelectMessagesIn(messages, session_id)

\* sessions.get_session_history: the rows in chronological order (404 when the
\* session does not exist, modelled as the empty answer with status 404)
get_session_history(session_id) ==
    IF session_id \in DOMAIN sessions
    THEN [status |-> 200, rows |-> SelectMessages(session_id)]
    ELSE [status |-> 404, rows |-> << >>]

\* chat.fetch_formatted_history
fetch_formatted_history(session_id) ==
    LET rows == SelectMessages(session_id)
    IN  [i \in 1..Len(rows) |-> Dict(rows[i].role, rows[i].content)]

\* chat_history[:-1]
ButLast(h) == IF h = << >> THEN << >> ELSE SubSeq(h, 1, Len(h) - 1)

\* the handlers of create_session, update_agent and delete_agent requests
\* that a run with such requests holds
OpIds == {1, 2, 3}

\* the handler of such a request that has not arrived yet; name and prompt
\* are the request's fields (<< >> for a field left out), agent the row that
\* db.get answered, cascade the rows db.delete marked
IdleOp ==
    [pc |-> "idle", op |-> "", agent_id |-> 0, new_id |-> 0, name |-> << >>,
     prompt |-> << >>, agent |-> << >>,
     cascade |-> [sessions |-> {}, messages |-> {}],
     status |-> 0, response |-> << >>]

\* the handler of a request that has not arrived yet
IdleTurn ==
    [pc |-> "idle", kind |-> "", session_id |-> 0, agent_id |-> 0, content |-> "",
     agent |-> << >>, user_audio_path |-> "", user_text |-> "", pending |-> << >>,
     chat_history |-> << >>, ai_text_response |-> "", ai_audio_path |-> "",
     call |-> NoRequest, response |-> << >>, status |-> 0, detail |-> "",
     logged |-> ""]

\* an entry of trace: a gateway call made ("call"), answered ("ok") or failed
\* ("err"), or a commit; data is the text the provider answered
Event(ev, what, client, data) == [ev |-> ev, what |-> what, client |-> client, data |-> data]

\* a call that keeps the event loop's thread until the provider answers
BlocksLoop(t) ==
    /\ turn[t].call # NoRequest
    /\ turn[t].call[1].blocking
    /\ turn[t].call[1].thread = "loop"

\* the event loop can run a step of handler t
CanRun(t) == \A u \in TurnIds \ {t} : ~BlocksLoop(u)

LoopFree == \A u \in TurnIds : ~BlocksLoop(u)

\* a handler that has ended keeps what it was asked and what it answered; its
\* local variables are gone
Ended(r, pc, status, detail, response) ==
    [IdleTurn EXCEPT !.pc = pc, !.kind = r.kind, !.session_id = r.session_id,
                     !.content = r.content, !.status = status,
                     !.detail = detail, !.response = response]

\* raise HTTPException(status_code, detail), or an exception nothing catches
Raise(r, status, detail) == Ended(r, "failed", status, detail, << >>)

\* agents.create_agent; the id is a fresh uuid4
create_agent(name, prompt) ==
    /\ LoopFree
    /\ \E id \in AgentIds \ uuids.agents :
          /\ agents' = agents @@ (id :> [name |-> name, prompt |-> prompt])
          /\ uuids' = [uuids EXCEPT !.agents = @ \cup {id}]
    /\ UNCHANGED <<env, provider, sessions, messages, clock, turn, trace, files, gw, ops>>

\* sessions.create_session, for an agent that exists, with nothing else
\* running between its two awaits
create_session(agent_id, name) ==
    /\ LoopFree
    /\ agent_id \in DOMAIN agents
    /\ \E id \in SessionIds \ uuids.sessions :
          /\ sessions' = sessions @@ (id :> [agent_id |-> agent_id, name |-> name])
          /\ uuids' = [uuids EXCEPT !.sessions = @ \cup {id}]
    /\ UNCHANGED <<env, provider, agents, messages, clock, turn, trace, files, gw, ops>>

---------------------------------------------------------------------------
(* The conversation turns, routers/chat.py.  Every action is the code a    *)
(* handler runs between two awaits.                                        *)

\* a request arrives and get_session_and_agent reads the session (line 34)
ReceiveRequest(t, kind, session_id, content) ==
    /\ CanRun(t)
    /\ turn[t].pc = "idle"
    /\ t > 1 => turn[t - 1].pc # "idle"
    /\ LET r == [turn[t] EXCEPT !.kind = kind, !.session_id = session_id,
                                !.content = content]
       IN  turn' = [turn EXCEPT ![t] =
                       IF session_id \in DOMAIN sessions
                       THEN [r EXCEPT !.pc = "get_agent",
                                      !.agent_id = sessions[session_id].agent_id]
                       ELSE Raise(r, 404, "Session not found")]
    /\ UNCHANGED <<env, provider, agents, sessions, messages, clock, trace, files, gw, ops, uuids>>

\* f"uploads/{uuid.uuid4()}_{file.filename}"
UserAudioPath(t) == "uploads/" \o ToString(UserMsgId(t)) \o "_voice.webm"

\* f"uploads/{uuid.uuid4()}_ai_response.mp3"
AiAudioPath(t) == "uploads/" \o ToString(AiMsgId(t)) \o "_ai_response.mp3"

\* get_session_and_agent reads the agent (line 37); a text turn then builds
\* its user message (line 61), a voice turn opens the upload's file (line 101)
GetAgent(t) ==
    /\ CanRun(t)
    /\ turn[t].pc = "get_agent"
    /\ LET r == [turn[t] EXCEPT !.agent =
                     IF turn[t].agent_id \in DOMAIN agents
                     THEN <<agents[turn[t].agent_id]>> ELSE << >>]
       IN  IF r.kind = "text"
           THEN /\ turn' = [turn EXCEPT ![t] =
                    [r EXCEPT !.pc = "commit_user",
                              !.pending = <<Message(UserMsgId(t), r.session_id, "user",
                                                    r.content, NoneValue, clock, t)>>]]
                /\ clock' = clock + 1
           ELSE /\ turn' = [turn EXCEPT ![t] =
                    [r EXCEPT !.pc = "save_upload", !.user_audio_path = UserAudioPath(t)]]
                /\ clock' = clock
    /\ UNCHANGED <<env, provider, agents, sessions, messages, trace, files, gw, ops, uuids>>

\* the upload is written (lines 101-103) and transcribe_audio is called
\* (line 107); with no matching branch it returns None at once and the user
\* message is built with that (line 112)
SaveUpload(t) ==
    /\ CanRun(t)
    /\ turn[t].pc = "save_upload"
    /\ files' = WriteFile(files, File(turn[t].user_audio_path, "upload", "", ""))
    /\ LET req == transcribe_audio(provider, turn[t].user_audio_path)
       IN  IF req = NoRequest
           THEN /\ turn' = [turn EXCEPT ![t] =
                    [turn[t] EXCEPT !.pc = "commit_user", !.user_text = NoneValue,
                              !.pending = <<Message(UserMsgId(t), turn[t].session_id, "user",
                                                    NoneValue, turn[t].user_audio_path, clock, t)>>]]
                /\ clock' = clock + 1
                /\ trace' = trace
           ELSE /\ turn' = [turn EXCEPT ![t] = [turn[t] EXCEPT !.pc = "await_stt", !.call = req]]
                /\ clock' = clock
                /\ trace' = [trace EXCEPT ![t] = Append(@, Event("call", "stt", req[1].client, ""))]
    /\ UNCHANGED <<env, provider, agents, sessions, messages, gw, ops, uuids>>

\* the provider answers the transcription: the user message is built from the
\* transcript (line 112), or the handler raises "Transcription Error" (line 109)
SttReturns(t, outcome, text) ==
    /\ CanRun(t)
    /\ turn[t].pc = "await_stt"
    /\ IF outcome = "ok"
       THEN /\ turn' = [turn EXCEPT ![t] =
                [turn[t] EXCEPT !.pc = "commit_user", !.call = NoRequest, !.user_text = text,
                          !.pending = <<Message(UserMsgId(t), turn[t].session_id, "user",
                                                text, turn[t].user_audio_path, clock, t)>>]]
            /\ clock' = clock + 1
            /\ trace' = [trace EXCEPT ![t] = Append(@, Event("ok", "stt", turn[t].call[1].client, text))]
       ELSE /\ turn' = [turn EXCEPT ![t] = Raise(turn[t], 500, "Transcription Error")]
            /\ clock' = clock
            /\ trace' = [trace EXCEPT ![t] = Append(@, Event("err", "stt", turn[t].call[1].client, ""))]
    /\ UNCHANGED <<env, provider, agents, sessions, messages, files, gw, ops, uuids>>

\* db.add(user_msg) without the commit: the row stays in the handler's session
CommitUser_nocommit(t) ==
    /\ CanRun(t)
    /\ turn[t].pc = "commit_user"
    /\ turn' = [turn EXCEPT ![t] = [turn[t] EXCEPT !.pc = "fetch_history"]]
    /\ UNCHANGED <<env, provider, agents, sessions, messages, clock, trace, files, gw, ops, uuids>>

\* the commit of a session made with expire_on_commit left on: the loaded
\* agent is expired and read again from the store
CommitUser_expire(t) ==
    /\ CanRun(t)
    /\ turn[t].pc = "commit_user"
    /\ IF turn[t].pending[1].content = NoneValue
       THEN /\ turn' = [turn EXCEPT ![t] = Raise(turn[t], 500, "IntegrityError")]
            /\ UNCHANGED <<messages, trace>>
       ELSE /\ messages' = messages \cup {turn[t].pending[1]}
            /\ turn' = [turn EXCEPT ![t] =
                    [turn[t] EXCEPT !.pc = "fetch_history", !.pending = << >>,
                                    !.agent = IF turn[t].agent_id \in DOMAIN agents
                                              THEN <<agents[turn[t].agent_id]>> ELSE << >>]]
            /\ trace' = [trace EXCEPT ![t] = Append(@, Event("commit", "user", "", ""))]
    /\ UNCHANGED <<env, provider, agents, sessions, clock, files, gw, ops, uuids>>

\* db.add(user_msg); await db.commit() (lines 62-63, 113-114).  content is a
\* NOT NULL column: a None content fails the INSERT and nothing is stored.
CommitUser(t) ==
    /\ CanRun(t)
    /\ turn[t].pc = "commit_user"
    /\ IF turn[t].pending[1].content = NoneValue
       THEN /\ turn' = [turn EXCEPT ![t] = Raise(turn[t], 500, "IntegrityError")]
            /\ UNCHANGED <<messages, trace>>
       ELSE /\ messages' = messages \cup {turn[t].pending[1]}
            /\ turn' = [turn EXCEPT ![t] = [turn[t] EXCEPT !.pc = "fetch_history", !.pending = << >>]]
            /\ trace' = [trace EXCEPT ![t] = Append(@, Event("commit", "user", "", ""))]
    /\ UNCHANGED <<env, provider, agents, sessions, clock, files, gw, ops, uuids>>

\* request.content of a text turn, user_text of a voice turn
NewMessage(r) == IF r.kind = "text" THEN r.content ELSE r.user_text

\* fetch_formatted_history answers (lines 66, 117) and generate_chat_response
\* is called with the history less its last entry (lines 70-74, 119-123); an
\* exception raised before the provider is reached becomes a 500 at once
FetchHistory(t) ==
    /\ CanRun(t)
    /\ turn[t].pc = "fetch_history"
    /\ \E h \in {fetch_formatted_history(turn[t].session_id)} :
       \E r \in {[turn[t] EXCEPT !.chat_history = h]} :
          IF r.agent = << >>
          THEN /\ turn' = [turn EXCEPT ![t] = Raise(r, 500, "AI Error: AttributeError")]
               /\ trace' = trace
          ELSE \E g \in {generate_chat_response(provider, r.agent[1].prompt,
                                                 ButLast(h), NewMessage(r))} :
                  IF g.raises # ""
                  THEN /\ turn' = [turn EXCEPT ![t] = Raise(r, 500, "AI Error: " \o g.raises)]
                       /\ trace' = [trace EXCEPT ![t] = Append(@, Event("err", "chat", "", ""))]
                  ELSE /\ turn' = [turn EXCEPT ![t] =
                              [r EXCEPT !.pc = "await_chat", !.call = g.invoke]]
                       /\ trace' = [trace EXCEPT ![t] =
                              Append(@, Event("call", "chat", g.invoke[1].client, ""))]
    /\ UNCHANGED <<env, provider, agents, sessions, messages, clock, files, gw, ops, uuids>>

\* the assistant row of a voice turn built as the text turn builds it
AiMessage_noaudio(t, r, text, created_at) ==
    Message(AiMsgId(t), r.session_id, "assistant", text, NoneValue, created_at, t)

\* Message(role="assistant", ...) of lines 79 and 135
AiMessage(t, r, text, created_at) ==
    Message(AiMsgId(t), r.session_id, "assistant", text,
            IF r.kind = "text" THEN NoneValue ELSE r.ai_audio_path, created_at, t)

\* the code that follows a chat answer: a text turn builds the assistant
\* message (line 79); a voice turn calls text_to_speech (lines 128-130), which
\* with no matching branch returns at once
AfterChat(t, r0, reply) ==
    LET r == [r0 EXCEPT !.call = NoRequest, !.ai_text_response = reply]
    IN  IF r.kind = "text"
        THEN /\ turn' = [turn EXCEPT ![t] =
                    [r EXCEPT !.pc = "commit_ai",
                              !.pending = <<AiMessage(t, r, reply, clock)>>]]
             /\ clock' = clock + 1
             /\ trace' = [trace EXCEPT ![t] = Append(@, Event("ok", "chat", r0.call[1].client, reply))]
        ELSE LET v == [r EXCEPT !.ai_audio_path = AiAudioPath(t)]
                 req == text_to_speech(provider, reply, v.ai_audio_path)
             IN  IF req = NoRequest
                 THEN /\ turn' = [turn EXCEPT ![t] =
                            [v EXCEPT !.pc = "commit_ai",
                                      !.pending = <<AiMessage(t, v, reply, clock)>>]]
                      /\ clock' = clock + 1
                      /\ trace' = [trace EXCEPT ![t] =
                            Append(@, Event("ok", "chat", r0.call[1].client, reply))]
                 ELSE /\ turn' = [turn EXCEPT ![t] = [v EXCEPT !.pc = "await_tts", !.call = req]]
                      /\ clock' = clock
                      /\ trace' = [trace EXCEPT ![t] =
                            @ \o <<Event("ok", "chat", r0.call[1].client, reply),
                                   Event("call", "tts", req[1].client, "")>>]

\* a handler that answers a failed generation with a canned reply
ChatReturns_canned(t, outcome, reply) ==
    /\ CanRun(t)
    /\ turn[t].pc = "await_chat"
    /\ IF outcome = "ok"
       THEN AfterChat(t, turn[t], reply)
       ELSE /\ turn' = [turn EXCEPT ![t] =
                    [turn[t] EXCEPT !.pc = "commit_ai", !.call = NoRequest,
                              !.ai_text_response = "Sorry",
                              !.pending = <<AiMessage(t, turn[t], "Sorry", clock)>>]]
            /\ clock' = clock + 1
            /\ trace' = [trace EXCEPT ![t] = Append(@, Event("err", "chat", turn[t].call[1].client, ""))]
    /\ UNCHANGED <<env, provider, agents, sessions, messages, files, gw, ops, uuids>>

\* the provider answers the generation, or the handler raises "AI Error" /
\* "AI LLM Error" (lines 75-76, 124-125)
ChatReturns(t, outcome, reply) ==
    /\ CanRun(t)
    /\ turn[t].pc = "await_chat"
    /\ IF outcome = "ok"
       THEN AfterChat(t, turn[t], reply)
       ELSE /\ turn' = [turn EXCEPT ![t] = Raise(turn[t], 500, "AI Error")]
            /\ clock' = clock
            /\ trace' = [trace EXCEPT ![t] = Append(@, Event("err", "chat", turn[t].call[1].client, ""))]
    /\ UNCHANGED <<env, provider, agents, sessions, messages, files, gw, ops, uuids>>

\* the provider answers the synthesis: the audio is written and the assistant
\* message built with its path (line 135), or the handler raises "TTS Error"
\* (lines 131-132), a truncated file possibly left behind
TtsReturns(t, outcome) ==
    /\ CanRun(t)
    /\ turn[t].pc = "await_tts"
    /\ LET req == turn[t].call[1]
       IN  IF outcome = "ok"
           THEN /\ files' = TtsWrite(files, turn[t].ai_audio_path, req)
                /\ turn' = [turn EXCEPT ![t] =
                        [turn[t] EXCEPT !.pc = "commit_ai", !.call = NoRequest,
                                  !.pending = <<AiMessage(t, turn[t], turn[t].ai_text_response, clock)>>]]
                /\ clock' = clock + 1
                /\ trace' = [trace EXCEPT ![t] = Append(@, Event("ok", "tts", req.client, turn[t].ai_audio_path))]
           ELSE /\ files' = IF outcome = "error" THEN files
                            ELSE PartialFile(files, turn[t].ai_audio_path, req)
                /\ turn' = [turn EXCEPT ![t] = Raise(turn[t], 500, "TTS Error")]
                /\ clock' = clock
                /\ trace' = [trace EXCEPT ![t] = Append(@, Event("err", "tts", req.client, ""))]
    /\ UNCHANGED <<env, provider, agents, sessions, messages, gw, ops, uuids>>

\* db.add(ai_msg); commit; refresh; the log line; return ai_msg
\* (lines 80-87, 136-143)
CommitAssistant(t) ==
    /\ CanRun(t)
    /\ turn[t].pc = "commit_ai"
    /\ messages' = messages \cup {turn[t].pending[1]}
    /\ turn' = [turn EXCEPT ![t] =
            [Ended(turn[t], "done", 200, "", turn[t].pending)
                EXCEPT !.logged = active_model_name(provider)]]
    /\ trace' = [trace EXCEPT ![t] = Append(@, Event("commit", "assistant", "", ""))]
    /\ UNCHANGED <<env, provider, agents, sessions, clock, files, gw, ops, uuids>>

\* ACTIVE_AI_PROVIDER of the runs with turns: unset, two providers spelled
\* with capitals (one with async calls, one with blocking calls), and an
\* unsupported one
TurnEnvValues ==
    { << >>, <<<<"G", "R", "O", "Q">>>>, <<<<"G", "e", "m", "i", "n", "i">>>>,
      <<<<"a", "z", "u", "r", "e">>>> }

Init ==
    /\ env \in TurnEnvValues
    /\ provider = InitProvider(env)
    /\ agents = << >>
    /\ sessions = << >>
    /\ messages = {}
    /\ clock = 1
    /\ turn = [t \in TurnIds |-> IdleTurn]
    /\ trace = [t \in TurnIds |-> << >>]
    /\ files = {}
    /\ gw = NoGw
    /\ ops = [o \in OpIds |-> IdleOp]
    /\ uuids = NoUuids

Next ==
    \/ \E prompt \in AgentPrompts : create_agent("Tutor", prompt)
    \/ \E a \in AgentIds : create_session(a, "New Chat")
    \/ \E t \in TurnIds, s \in SessionIds, c \in Contents : ReceiveRequest(t, "text", s, c)
    \/ \E t \in TurnIds, s \in SessionIds : ReceiveRequest(t, "voice", s, "")
    \/ \E t \in TurnIds : GetAgent(t)
    \/ \E t \in TurnIds : SaveUpload(t)
    \/ \E t \in TurnIds, o \in {"ok", "error"}, text \in Transcripts : SttReturns(t, o, text)
    \/ \E t \in TurnIds : CommitUser(t)
    \/ \E t \in TurnIds : FetchHistory(t)
    \/ \E t \in TurnIds, o \in {"ok", "error"}, reply \in Answers : ChatReturns(t, o, reply)
    \/ \E t \in TurnIds, o \in Outcomes : TtsReturns(t, o)
    \/ \E t \in TurnIds : CommitAssistant(t)

Spec == Init /\ [][Next]_vars

---------------------------------------------------------------------------
(* Agents and sessions created, updated and deleted while turns run:       *)
(* routers/agents.py and routers/sessions.py, one action per stretch of    *)
(* handler code between two awaits.  The engine is SQLite as database.py   *)
(* opens it, with no foreign_keys pragma: a row is inserted whether or not *)
(* the row its foreign key names exists.                                   *)

\* the turns of the runs with such requests
AdminTurnIds == {1}

\* AgentUpdate.name and AgentUpdate.prompt: left out, or a new value
NameUpdates == {<< >>, <<"Coach">>, <<"Tutor">>}
PromptUpdates == {<< >>, <<"Be kind">>}

\* a handler of ops ends: what it answered stays, its locals are gone
OpEnded(r, pc, status, response) ==
    [IdleOp EXCEPT !.pc = pc, !.op = r.op, !.agent_id = r.agent_id,
                   !.name = r.name, !.prompt = r.prompt,
                   !.status = status, !.response = response]

\* the next request of this kind arrives at the first handler still free
Arrives(o) ==
    /\ ops[o].pc = "idle"
    /\ \A u \in OpIds : u < o => ops[u].pc # "idle"

\* a table without the rows of the given keys
Without(table, keys) == [k \in DOMAIN table \ keys |-> table[k]]

\* create_session, lines 23-28: db.get(Agent), 404 without the agent, else
\* the Session row is built (its id a fresh uuid4) and added
create_session_get(o, agent_id, name) ==
    /\ LoopFree
    /\ Arrives(o)
    /\ LET r == [ops[o] EXCEPT !.op = "create_session", !.agent_id = agent_id,
                               !.name = <<name>>]
       IN  IF agent_id \in DOMAIN agents
           THEN \E id \in SessionIds \ uuids.sessions :
                   /\ ops' = [ops EXCEPT ![o] = [r EXCEPT !.pc = "cs_commit", !.new_id = id]]
                   /\ uuids' = [uuids EXCEPT !.sessions = @ \cup {id}]
           ELSE /\ ops' = [ops EXCEPT ![o] = OpEnded(r, "failed", 404, << >>)]
                /\ uuids' = uuids
    /\ UNCHANGED <<env, provider, agents, sessions, messages, clock, turn, trace, files, gw>>

\* create_session, lines 29-31: the INSERT commits; agent_id is not looked up
create_session_commit(o) ==
    /\ LoopFree
    /\ ops[o].pc = "cs_commit"
    /\ sessions' = sessions @@
           (ops[o].new_id :> [agent_id |-> ops[o].agent_id, name |-> ops[o].name[1]])
    /\ ops' = [ops EXCEPT ![o] = OpEnded(ops[o], "done", 200, <<ops[o].new_id>>)]
    /\ UNCHANGED <<env, provider, agents, messages, clock, turn, trace, files, gw, uuids>>

\* update_agent, lines 53-61: db.get(Agent), 404 without the agent, else the
\* supplied fields are assigned on the loaded object
update_agent_get(o, agent_id, name, prompt) ==
    /\ LoopFree
    /\ Arrives(o)
    /\ LET r == [ops[o] EXCEPT !.op = "update_agent", !.agent_id = agent_id,
                               !.name = name, !.prompt = prompt]
       IN  ops' = [ops EXCEPT ![o] =
                      IF agent_id \in DOMAIN agents
                      THEN [r EXCEPT !.pc = "ua_commit", !.agent = <<agents[agent_id]>>]
                      ELSE OpEnded(r, "failed", 404, << >>)]
    /\ UNCHANGED <<env, provider, agents, sessions, messages, clock, turn, trace, files, gw, uuids>>

\* the columns the flush of update_agent writes: an attribute assigned a
\* value other than the loaded one
Written(supplied, loaded) == supplied # << >> /\ supplied[1] # loaded

\* update_agent, lines 63-65: the UPDATE of the assigned columns commits and
\* the row is read back; with the row gone meanwhile the UPDATE (or the
\* refresh) finds no row and the handler fails with nothing written
update_agent_commit(o) ==
    /\ LoopFree
    /\ ops[o].pc = "ua_commit"
    /\ IF ops[o].agent_id \notin DOMAIN agents
       THEN /\ ops' = [ops EXCEPT ![o] = OpEnded(ops[o], "failed", 500, << >>)]
            /\ agents' = agents
       ELSE LET id == ops[o].agent_id
                row == [name |-> IF Written(ops[o].name, ops[o].agent[1].name)
                                 THEN ops[o].name[1] ELSE agents[id].name,
                        prompt |-> IF Written(ops[o].prompt, ops[o].agent[1].prompt)
                                   THEN ops[o].prompt[1] ELSE agents[id].prompt]
            IN  /\ agents' = [agents EXCEPT ![id] = row]
                /\ ops' = [ops EXCEPT ![o] = OpEnded(ops[o], "done", 200, <<row>>)]
    /\ UNCHANGED <<env, provider, sessions, messages, clock, turn, trace, files, gw, uuids>>

\* delete_agent, lines 70-72: db.get(Agent), 404 without the agent
delete_agent_get(o, agent_id) ==
    /\ LoopFree
    /\ Arrives(o)
    /\ LET r == [ops[o] EXCEPT !.op = "delete_agent", !.agent_id = agent_id]
       IN  ops' = [ops EXCEPT ![o] =
                      IF agent_id \in DOMAIN agents
                      THEN [r EXCEPT !.pc = "da_delete", !.agent = <<agents[agent_id]>>]
                      ELSE OpEnded(r, "failed", 404, << >>)]
    /\ UNCHANGED <<env, provider, agents, sessions, messages, clock, turn, trace, files, gw, uuids>>

\* delete_agent, line 74: db.delete(agent) loads the agent's sessions and
\* their messages (cascade_delete, models.py lines 20 and 39) and marks them
delete_agent_delete(o) ==
    /\ LoopFree
    /\ ops[o].pc = "da_delete"
    /\ LET ss == {s \in DOMAIN sessions : sessions[s].agent_id = ops[o].agent_id}
           ms == {m \in messages : m.session_id \in ss}
       IN  ops' = [ops EXCEPT ![o] =
                      [ops[o] EXCEPT !.pc = "da_commit",
                                     !.cascade = [sessions |-> ss, messages |-> ms]]]
    /\ UNCHANGED <<env, provider, agents, sessions, messages, clock, turn, trace, files, gw, uuids>>

\* delete_agent, lines 75-76: the DELETEs of the marked rows commit
delete_agent_commit(o) ==
    /\ LoopFree
    /\ ops[o].pc = "da_commit"
    /\ agents' = Without(agents, {ops[o].agent_id})
    /\ sessions' = Without(sessions, ops[o].cascade.sessions)
    /\ messages' = messages \ ops[o].cascade.messages
    /\ ops' = [ops EXCEPT ![o] = OpEnded(ops[o], "done", 200, << >>)]
    /\ UNCHANGED <<env, provider, clock, turn, trace, files, gw, uuids>>

\* a step of turn t
TurnStep(t) ==
    \/ \E s \in SessionIds, c \in Contents : ReceiveRequest(t, "text", s, c)
    \/ \E s \in SessionIds : ReceiveRequest(t, "voice", s, "")
    \/ GetAgent(t)
    \/ SaveUpload(t)
    \/ \E o \in {"ok", "error"}, text \in Transcripts : SttReturns(t, o, text)
    \/ CommitUser(t)
    \/ FetchHistory(t)
    \/ \E o \in {"ok", "error"}, reply \in Answers : ChatReturns(t, o, reply)
    \/ \E o \in Outcomes : TtsReturns(t, o)
    \/ CommitAssistant(t)

AdminNext ==
    \/ \E prompt \in AgentPrompts : create_agent("Tutor", prompt)
    \/ \E o \in OpIds, a \in AgentIds : create_session_get(o, a, "New Chat")
    \/ \E o \in OpIds : create_session_commit(o)
    \/ \E o \in OpIds, a \in AgentIds, n \in NameUpdates, p \in PromptUpdates :
          update_agent_get(o, a, n, p)
    \/ \E o \in OpIds : update_agent_commit(o)
    \/ \E o \in OpIds, a \in AgentIds : delete_agent_get(o, a)
    \/ \E o \in OpIds : delete_agent_delete(o)
    \/ \E o \in OpIds : delete_agent_commit(o)
    \/ \E t \in AdminTurnIds : TurnStep(t)

AdminSpec == Init /\ [][AdminNext]_vars

---------------------------------------------------------------------------
(* Properties of the gateway, under GatewaySpec. *)

Supported == {OPENAI, GROQ, GEMINI}

\* the client handle of the selected provider
SelectedClient ==
    IF provider = OPENAI THEN "openai_client"
    ELSE IF provider = GROQ THEN "groq_client"
    ELSE "gemini_client"

\* C3: with a provider identifier other than openai, groq and gemini,
\* generate_chat_response raises its configuration error (ValueError) and
\* returns nothing, and no provider client has been invoked for the call.
C3_UnsupportedProviderIsConfigError ==
    (gw.op = "generate_chat_response" /\ provider \notin Supported)
        => /\ gw.raised = "ValueError"
           /\ gw.returned = << >>
           /\ gw.invoked = << >>

C3_Witness ==
    /\ gw.op = "generate_chat_response"
    /\ provider = <<"a", "z", "u", "r", "e">>
    /\ gw.raised = "ValueError"

\* C4 as stated: the model names of the three selections, and "unknown" for
\* any other selection and for ACTIVE_AI_PROVIDER unset at construction.
C4_Original ==
    gw.op = "active_model_name"
        => /\ (env # << >> /\ provider = OPENAI) => gw.returned = <<"gpt-4o-mini">>
           /\ (env # << >> /\ provider = GROQ) => gw.returned = <<"llama-3.3-70b-versatile">>
           /\ (env # << >> /\ provider = GEMINI) => gw.returned = <<"gemini-2.5-flash">>
           /\ (env = << >> \/ provider \notin Supported) => gw.returned = <<"unknown">>

\* C4 (amended): active_model_name returns gpt-4o-mini, llama-3.3-70b-versatile
\* or gemini-2.5-flash when the selection is openai, groq or gemini in any
\* letter case, "unknown" for any other value that is set, and gpt-4o-mini when
\* ACTIVE_AI_PROVIDER is unset, because the selection then defaults to openai.
C4_ActiveModelName ==
    gw.op = "active_model_name"
        => /\ provider = OPENAI => gw.returned = <<"gpt-4o-mini">>
           /\ provider = GROQ => gw.returned = <<"llama-3.3-70b-versatile">>
           /\ provider = GEMINI => gw.returned = <<"gemini-2.5-flash">>
           /\ provider \notin Supported => gw.returned = <<"unknown">>
           /\ env = << >> => gw.returned = <<"gpt-4o-mini">>
           /\ env = <<<<"G", "R", "O", "Q">>>> => gw.returned = <<"llama-3.3-70b-versatile">>
           /\ env = <<<<"a", "z", "u", "r", "e">>>> => gw.returned = <<"unknown">>
           /\ env = <<<< >>>> => gw.returned = <<"unknown">>

C4_Witness ==
    /\ gw.op = "active_model_name"
    /\ env = << >>
    /\ gw.returned = <<"gpt-4o-mini">>

\* C5: for each of the three providers and every history, the empty one
\* included, the request of generate_chat_response holds the history entries
\* in their order and new_message last.  For openai and groq the list starts
\* with one system message carrying system_prompt and every entry keeps its
\* role; for gemini user stays user and assistant becomes model, system_prompt
\* is the system instruction and no turn has the system role.
C5_RequestKeepsHistoryOrder ==
    (gw.op = "generate_chat_response" /\ provider \in Supported)
        => /\ Len(gw.invoked) = 1
           /\ LET c == gw.invoked[1].contents
                   h == gw.chat_history
                   n == Len(h)
               IN  IF provider = GEMINI
                   THEN /\ Len(c) = n + 1
                        /\ \A i \in 1..n :
                              /\ c[i].content = h[i].content
                              /\ c[i].role = (IF h[i].role = "user" THEN "user" ELSE "model")
                              /\ h[i].role = "assistant" => c[i].role = "model"
                        /\ c[n + 1].content = gw.new_message
                        /\ \A i \in 1..(n + 1) : c[i].role # "system"
                        /\ gw.invoked[1].system_instruction = <<gw.system_prompt>>
                   ELSE /\ Len(c) = n + 2
                        /\ c[1] = Dict("system", gw.system_prompt)
                        /\ \A i \in 1..n : c[i + 1] = h[i]
                        /\ c[n + 2] = Dict("user", gw.new_message)
                        /\ \A i \in 2..(n + 2) : c[i].role # "system"
                        /\ gw.invoked[1].system_instruction = << >>

C5_Witness ==
    /\ gw.op = "generate_chat_response"
    /\ provider = GEMINI
    /\ gw.chat_history = <<Dict("user", "a"), Dict("assistant", "b")>>
    /\ gw.new_message = "a"
    /\ gw.returned # << >>

\* C7: text_to_speech returns output_path unchanged, and whenever it returns
\* the selected provider's adapter has written the audio of the text to the
\* file at output_path: gemini through save_wave_file, openai and groq by
\* streaming to the file.
C7_TtsLeavesAudioAtOutputPath ==
    (gw.op = "text_to_speech" /\ gw.returned # << >>)
        => /\ gw.returned = <<gw.output_path>>
           /\ \E f \in files :
                 /\ f.path = gw.output_path
                 /\ f.text = gw.text
                 /\ f.client = SelectedClient
                 /\ f.writer = (IF provider = GEMINI THEN "save_wave_file"
                                ELSE "stream_to_file")

\* C9: the provider selection never changes after construction, whatever
\* capability is called, and a capability call invokes at most one client,
\* the selected provider's, also when the provider fails the call; with an
\* unsupported selection no client is invoked.
C9_SelectionFixedNoFallback ==
    /\ [](/\ provider = InitProvider(env)
          /\ Len(gw.invoked) <= 1
          /\ \A i \in 1..Len(gw.invoked) :
                /\ provider \in Supported
                /\ gw.invoked[i].client = SelectedClient)
    /\ [][provider' = provider /\ env' = env]_vars

C9_Witness ==
    /\ gw.op = "text_to_speech"
    /\ provider = GROQ
    /\ gw.raised = "ProviderError"
    /\ Len(gw.invoked) = 1

---------------------------------------------------------------------------
(* Properties of the turns, under Spec. *)

Events(t, ev, what) ==
    {i \in 1..Len(trace[t]) : trace[t][i].ev = ev /\ trace[t][i].what = what}

Calls(t) == {i \in 1..Len(trace[t]) : trace[t][i].ev = "call"}

HasErr(t) == \E i \in 1..Len(trace[t]) : trace[t][i].ev = "err"

\* the rows handler t has in the store
RowsOf(t, role) == {m \in messages : m.turn = t /\ m.role = role}

\* the step of handler t appended this event to its trace
Logged(t, ev, what) ==
    /\ Len(trace'[t]) > Len(trace[t])
    /\ \E i \in (Len(trace[t]) + 1)..Len(trace'[t]) :
          trace'[t][i].ev = ev /\ trace'[t][i].what = what

\* the assistant message is committed only after every gateway call of the
\* turn has been answered, the generation among them
AssistantAfterAnswers(t) ==
    \A k \in Events(t, "commit", "assistant") :
        /\ \E i \in Events(t, "call", "chat") : i < k
        /\ \A i \in Calls(t) :
              /\ i < k
              /\ \E j \in Events(t, "ok", trace[t][i].what) : i < j /\ j < k
        /\ ~HasErr(t)

\* C1 as stated: in a text and in a voice turn alike the user message is
\* committed before any gateway call of the turn is made, and the assistant
\* message only after the turn's gateway calls have been answered.
C1_Original ==
    \A t \in TurnIds :
        /\ \A i \in Calls(t) : \E j \in Events(t, "commit", "user") : j < i
        /\ AssistantAfterAnswers(t)

\* C1 (amended): the user message is committed before the generation call and
\* before the synthesis call of its turn; in a voice turn the transcription
\* call is made and answered before the user message, whose content is the
\* transcript, is committed; the assistant message is committed only after
\* every gateway call of the turn has been answered successfully.  A commit
\* the trace records has put the row into the store.
C1_InboundBeforeGeneration ==
    /\ [](\A t \in TurnIds :
            /\ \A i \in Calls(t) :
                  IF trace[t][i].what = "stt"
                  THEN /\ turn[t].kind = "voice"
                       /\ \A j \in Events(t, "commit", "user") :
                             \E k \in Events(t, "ok", "stt") : i < k /\ k < j
                  ELSE \E j \in Events(t, "commit", "user") : j < i
            /\ AssistantAfterAnswers(t)
            /\ RowsOf(t, "user") # {} => Events(t, "commit", "user") # {}
            /\ RowsOf(t, "assistant") # {} => Events(t, "commit", "assistant") # {})
    /\ [][\A t \in TurnIds :
            /\ Logged(t, "commit", "user")
                  => \E m \in messages' \ messages : m.turn = t /\ m.role = "user"
            /\ Logged(t, "commit", "assistant")
                  => \E m \in messages' \ messages : m.turn = t /\ m.role = "assistant"]_vars

C1_Witness ==
    \E t \in TurnIds :
        /\ turn[t].pc = "done"
        /\ turn[t].kind = "voice"
        /\ Events(t, "call", "stt") = {1}
        /\ Events(t, "commit", "user") = {3}
        /\ Events(t, "call", "chat") = {4}
        /\ RowsOf(t, "assistant") # {}

\* C2: when a gateway call of a turn fails (transcription, generation or
\* synthesis; for generation also the configuration error), the turn ends
\* with an error and answers nothing, no assistant message of the turn is in
\* the store or is committed later, the failing step leaves the stored
\* messages as they were, and no call is made after the failure, the failed
\* one again included.
C2_FailureAbortsTurn ==
    /\ [](\A t \in TurnIds :
            HasErr(t)
                => /\ turn[t].pc = "failed"
                   /\ turn[t].status = 500
                   /\ turn[t].response = << >>
                   /\ RowsOf(t, "assistant") = {}
                   /\ Events(t, "commit", "assistant") = {}
                   /\ trace[t][Len(trace[t])].ev = "err"
                   /\ \A what \in {"stt", "chat", "tts"} :
                         /\ Cardinality(Events(t, "call", what)) <= 1
                         /\ Cardinality(Events(t, "err", what)) <= 1)
    /\ [][\A t \in TurnIds :
            /\ (~HasErr(t) /\ HasErr(t)') => messages' = messages
            /\ HasErr(t) => (trace'[t] = trace[t] /\ turn'[t] = turn[t])]_vars

C2_Witness ==
    \E t \in TurnIds :
        /\ turn[t].kind = "voice"
        /\ Events(t, "err", "tts") # {}
        /\ RowsOf(t, "user") # {}
        /\ turn[t].pc = "failed"

\* the rows of a table state that handler t built
Mine(rows, t) == {m \in rows : m.turn = t}

\* C6 as stated: when a text turn completes, a history fetch returns the
\* session's previous messages followed by exactly two new ones, the user
\* message with the submitted content and then the assistant reply that the
\* turn returns.
C6_Original ==
    [][\A t \in TurnIds :
        (turn[t].pc # "done" /\ turn'[t].pc = "done" /\ turn'[t].kind = "text")
            => LET h == SelectMessagesIn(messages', turn'[t].session_id)
                   n == Len(h)
               IN  /\ n >= 2
                   /\ h[n] = turn'[t].response[1]
                   /\ h[n].role = "assistant"
                   /\ h[n - 1].turn = t
                   /\ h[n - 1].role = "user"
                   /\ h[n - 1].content = turn'[t].content
                   /\ \A i \in 1..(n - 2) : h[i] \in messages /\ h[i].turn # t]_vars

\* C6 (amended): after a successful text turn the returned message is the
\* stored assistant reply, and a history fetch returns the turn's user message
\* with the submitted content and, later in the list, that reply, each once.
\* The two are adjacent and last when no other turn has built a message of the
\* session after the turn's user message; on a session with no other messages
\* the history is exactly the two.
C6_TextTurnInHistory ==
    \A t \in TurnIds :
        (turn[t].pc = "done" /\ turn[t].kind = "text")
            => LET got == get_session_history(turn[t].session_id)
                   h == got.rows
                   n == Len(h)
                   mine == {i \in 1..n : h[i].turn = t}
               IN  /\ got.status = 200
                   /\ turn[t].status = 200
                   /\ turn[t].response # << >>
                   /\ turn[t].response[1].role = "assistant"
                   /\ \E k \in Events(t, "ok", "chat") :
                         turn[t].response[1].content = trace[t][k].data
                   /\ Cardinality(mine) = 2
                   /\ \E i, j \in mine :
                         /\ i < j
                         /\ h[i].role = "user"
                         /\ h[i].content = turn[t].content
                         /\ h[i].audio_file_path = NoneValue
                         /\ h[j] = turn[t].response[1]
                         /\ (\A k \in 1..n : h[k].turn # t => h[k].created_at < h[i].created_at)
                               => (i = n - 1 /\ j = n)
                         /\ Mine(messages, t) = messages => h = <<h[i], h[j]>>

C6_Witness ==
    /\ turn[1].pc = "done"
    /\ turn[2].pc = "done"
    /\ turn[2].kind = "text"
    /\ LET h == get_session_history(1).rows
       IN  /\ Len(h) = 4
           /\ h[1].turn = 1
           /\ h[2].turn = 1
           /\ h[3].turn = 2
           /\ h[4] = turn[2].response[1]

\* C8: a successful voice turn has stored exactly one user message, with the
\* uploaded recording's path and the transcript as content, and exactly one
\* assistant message, with the generated answer as content and the path of
\* the file text_to_speech wrote for that answer; the user message comes
\* first in the session's history.
C8_VoiceTurnStoresBoth ==
    \A t \in TurnIds :
        (turn[t].pc = "done" /\ turn[t].kind = "voice")
            => /\ Cardinality(RowsOf(t, "user")) = 1
               /\ Cardinality(RowsOf(t, "assistant")) = 1
               /\ Mine(messages, t) = RowsOf(t, "user") \cup RowsOf(t, "assistant")
               /\ \A u \in RowsOf(t, "user"), a \in RowsOf(t, "assistant") :
                     /\ u.audio_file_path # NoneValue
                     /\ \E f \in files : f.path = u.audio_file_path /\ f.writer = "upload"
                     /\ \E k \in Events(t, "ok", "stt") : u.content = trace[t][k].data
                     /\ a.audio_file_path # NoneValue
                     /\ \E k \in Events(t, "ok", "chat") : a.content = trace[t][k].data
                     /\ \E k \in Events(t, "ok", "tts") : a.audio_file_path = trace[t][k].data
                     /\ \E f \in files :
                           /\ f.path = a.audio_file_path
                           /\ f.writer \in {"save_wave_file", "stream_to_file"}
                           /\ f.text = a.content
                     /\ a = turn[t].response[1]
                     /\ LET h == get_session_history(turn[t].session_id).rows
                        IN  \E i, j \in 1..Len(h) : i < j /\ h[i] = u /\ h[j] = a

C8_Witness ==
    \E t \in TurnIds :
        /\ turn[t].pc = "done"
        /\ turn[t].kind = "voice"
        /\ \E a \in RowsOf(t, "assistant") :
              /\ a.audio_file_path = AiAudioPath(t)
              /\ \E f \in files : f.path = a.audio_file_path /\ f.writer = "save_wave_file"

\* the steps handler t can take on the event loop without a provider answer
LoopStep(t) ==
    \/ GetAgent(t)
    \/ SaveUpload(t)
    \/ CommitUser(t)
    \/ FetchHistory(t)
    \/ CommitAssistant(t)

\* handler t is at a step that waits for no provider
Ready(t) ==
    turn[t].pc \in {"get_agent", "save_upload", "commit_user", "fetch_history", "commit_ai"}

\* C10: with gemini selected, every provider call in flight (generation,
\* transcription, synthesis) runs on a worker thread, none occupies the event
\* loop, and every other handler that is ready to take a step can take it.
C10_GeminiCallsOffLoop ==
    provider = GEMINI
        => \A t \in TurnIds :
              turn[t].call # NoRequest
                  => /\ turn[t].call[1].client = "gemini_client"
                     /\ turn[t].call[1].blocking
                     /\ turn[t].call[1].thread = "worker"
                     /\ LoopFree
                     /\ \A u \in TurnIds \ {t} : Ready(u) => ENABLED LoopStep(u)

C10_Witness ==
    /\ provider = GEMINI
    /\ turn[1].pc = "await_stt"
    /\ turn[1].call # NoRequest
    /\ turn[2].pc = "commit_user"

---------------------------------------------------------------------------
(* The history a turn hands to the gateway, under Spec. *)

\* the chat_history inside a generation request, read back from what the
\* provider is sent: roles as the store names them
HandedHistory(req) ==
    LET c == req.contents
    IN  IF req.client = "gemini_client"
        THEN [i \in 1..(Len(c) - 1) |->
                 [role |-> IF c[i].role = "model" THEN "assistant" ELSE c[i].role,
                  content |-> c[i].content]]
        ELSE [i \in 1..(Len(c) - 2) |->
                 [role |-> c[i + 1].role, content |-> c[i + 1].content]]

\* the committed messages of the session of handler t other than the user
\* message t committed, oldest first
OthersCommitted(t) ==
    OrderByCreatedAt(SessionMessagesIn(messages, turn[t].session_id) \ RowsOf(t, "user"))

\* C11: whenever a turn calls generate_chat_response, also with other turns
\* running on the same session, the history in the request is the committed
\* messages of the session without the turn's own user message: every other
\* message committed before the fetch is there, in order, and the turn's own
\* message is not (it travels as new_message only).
C11_HistoryExcludesOwnMessage ==
    [][\A t \in TurnIds :
          Logged(t, "call", "chat")
              => LET h == HandedHistory(turn'[t].call[1])
                     o == OthersCommitted(t)
                 IN  /\ Len(h) = Len(o)
                     /\ \A i \in 1..Len(h) :
                           h[i].role = o[i].role /\ h[i].content = o[i].content]_vars

---------------------------------------------------------------------------
(* Properties of the store under AdminSpec. *)

\* C12: in every reachable state, whatever the interleaving of
\* create_session, delete_agent and turns, every stored session names an
\* agent that is stored and every stored message names a session that is
\* stored: delete_agent takes the agent's sessions and their messages with
\* it, and a turn begun before the delete leaves no message behind.
C12_ReferentialIntegrity ==
    /\ \A s \in DOMAIN sessions : sessions[s].agent_id \in DOMAIN agents
    /\ \A m \in messages : m.session_id \in DOMAIN sessions

\* the system prompt inside a generation request
SystemPrompt(req) ==
    IF req.system_instruction # << >> THEN req.system_instruction[1]
    ELSE req.contents[1].content

\* handler t is between its first and its last step
InFlight(r) == r.pc \notin {"idle", "done", "failed"}

\* handler o of ops commits an update_agent in this step
UpdateCommits(o) ==
    ops[o].op = "update_agent" /\ ops[o].pc = "ua_commit" /\ ops'[o].pc = "done"

\* C13: the agent a turn works with is the stored row as get_session_and_agent
\* read it; no step changes it while the turn is in flight, an update_agent
\* that commits meanwhile included; the system prompt of the generation
\* request is that row's prompt verbatim.  update_agent in turn changes only
\* the fields its request supplies (a field supplied with a new value ends
\* with that value) and leaves the fields not supplied, the sessions, the
\* messages and the turns as they were.
C13_PromptFixedDuringTurn ==
    [][/\ \A t \in TurnIds :
            /\ (turn[t].pc = "get_agent" /\ turn'[t].pc # "get_agent"
                    /\ turn[t].agent_id \in DOMAIN agents)
                   => turn'[t].agent = <<agents[turn[t].agent_id]>>
            /\ (turn[t].agent # << >> /\ InFlight(turn'[t]))
                   => turn'[t].agent = turn[t].agent
            /\ Logged(t, "call", "chat")
                   => SystemPrompt(turn'[t].call[1]) = turn[t].agent[1].prompt
       /\ \A o \in OpIds :
            UpdateCommits(o)
               => LET id == ops[o].agent_id
                  IN  /\ DOMAIN agents' = DOMAIN agents
                      /\ \A a \in DOMAIN agents \ {id} : agents'[a] = agents[a]
                      /\ ops[o].name = << >> => agents'[id].name = agents[id].name
                      /\ ops[o].prompt = << >> => agents'[id].prompt = agents[id].prompt
                      /\ Written(ops[o].name, ops[o].agent[1].name)
                            => agents'[id].name = ops[o].name[1]
                      /\ Written(ops[o].prompt, ops[o].agent[1].prompt)
                            => agents'[id].prompt = ops[o].prompt[1]
                      /\ UNCHANGED <<sessions, messages, turn>>
      ]_vars

\* an update_agent changed the prompt in the store after the turn read the
\* agent, and the turn's generation request carries the prompt it read
C13_Witness ==
    /\ turn[1].pc = "await_chat"
    /\ turn[1].agent # << >>
    /\ 1 \in DOMAIN agents
    /\ agents[1].prompt # turn[1].agent[1].prompt
    /\ SystemPrompt(turn[1].call[1]) = turn[1].agent[1].prompt
    /\ \E o \in OpIds :
          ops[o].op = "update_agent" /\ ops[o].pc = "done" /\ ops[o].prompt # << >>

=============================================================================
